---------------------------- MODULE Spec2Model ----------------------------
(***************************************************************************)
(* Model of optical_simulation.py: a time-slotted WDM network in which     *)
(* stations that share a wavelength contend for it.  One behaviour of the  *)
(* model is one OpticalSimulation object, set up once and then used for    *)
(* successive run_simulation calls.                                        *)
(*                                                                         *)
(* Probabilities and random draws are rationals with denominator RandDen:  *)
(* the integer n stands for n / RandDen.  random.random() returns a value  *)
(* in [0, 1), so a draw is one of 0 .. RandDen-1.                          *)
(***************************************************************************)
EXTENDS Integers, Sequences, FiniteSets

----------------------------------------------------------------------------
(* Bounds of the model *)

\* wavelengths of the topology (the source has 4: the model is scaled down)
NumWavelengths == 2
\* capacity of a station's queue (the source has 5: the model is scaled down)
buffer_size == 2
\* largest total_slots an engine is constructed with
MaxSlots == 3
\* largest total_slots of an engine that is run with an arrival probability
\* strictly between 0 and 1 (longer engines are run with the probabilities
\* for which an arrival is certain or impossible)
MaxSlotsMixed == 1
\* denominator of the modelled probabilities and random draws
RandDen == 2

(* Program constants *)

\* wavelengths[i // 2]: every two stations share a wavelength
StationsPerWavelength == 2

----------------------------------------------------------------------------
(* Topology: setup_stations *)

NumStations == StationsPerWavelength * NumWavelengths

\* station ids, i+1 for i in range(NumStations), in iteration order
Stations == 1..NumStations

Wavelengths == 1..NumWavelengths

\* Station.wavelength of the station with id s = i+1: wavelengths[i // 2]
wavelength(s) == ((s - 1) \div StationsPerWavelength) + 1

\* self.wavelength_groups[wl]: the stations sharing wl
wavelength_groups(wl) == {s \in Stations : wavelength(s) = wl}

\* Station.__init__: empty queue, zero counters
NewStation ==
    [queue                 |-> <<>>,
     total_packets_created |-> 0,
     total_packets_lost    |-> 0,
     total_packets_sent    |-> 0,
     total_delay           |-> 0]

\* Packet.__init__
Packet(packet_id, arrival_time) ==
    [id |-> packet_id, arrival_time |-> arrival_time]

\* the values random.random() can return, as numerators over RandDen
RandomDraws == 0..(RandDen - 1)

\* the arrival probabilities a caller may pass, valid or not
ArrivalProbs == (0 - 1)..(RandDen + 1)

\* the total_slots values an engine may be constructed with, valid or not
SlotCounts == (0 - 1)..MaxSlots

\* the calls run_simulation(p) the caller makes on an engine of n slots
Explored(n, p) == n <= MaxSlotsMixed \/ p <= 0 \/ p >= RandDen

----------------------------------------------------------------------------
(* Station methods *)

\* generate_packet with an arrival when the draw equals p (<= for <)
generate_packet_arrival_on_equal(st, current_time, p, counter, r) ==
    IF r <= p
    THEN IF Len(st.queue) < buffer_size
         THEN [station |-> [st EXCEPT
                              !.queue = Append(@, Packet(counter, current_time)),
                              !.total_packets_created = @ + 1],
               counter |-> counter + 1]
         ELSE [station |-> [st EXCEPT
                              !.total_packets_lost = @ + 1,
                              !.total_packets_created = @ + 1],
               counter |-> counter]
    ELSE [station |-> st, counter |-> counter]

\* generate_packet that returns the counter as it was after an admission
generate_packet_id_not_advanced(st, current_time, p, counter, r) ==
    IF r < p
    THEN IF Len(st.queue) < buffer_size
         THEN [station |-> [st EXCEPT
                              !.queue = Append(@, Packet(counter, current_time)),
                              !.total_packets_created = @ + 1],
               counter |-> counter]
         ELSE [station |-> [st EXCEPT
                              !.total_packets_lost = @ + 1,
                              !.total_packets_created = @ + 1],
               counter |-> counter]
    ELSE [station |-> st, counter |-> counter]

\* generate_packet admitting into a full queue (<= for <)
generate_packet_admits_when_full(st, current_time, p, counter, r) ==
    IF r < p
    THEN IF Len(st.queue) <= buffer_size
         THEN [station |-> [st EXCEPT
                              !.queue = Append(@, Packet(counter, current_time)),
                              !.total_packets_created = @ + 1],
               counter |-> counter + 1]
         ELSE [station |-> [st EXCEPT
                              !.total_packets_lost = @ + 1,
                              !.total_packets_created = @ + 1],
               counter |-> counter]
    ELSE [station |-> st, counter |-> counter]

\* generate_packet that does not count a dropped packet as created
generate_packet_drop_not_created(st, current_time, p, counter, r) ==
    IF r < p
    THEN IF Len(st.queue) < buffer_size
         THEN [station |-> [st EXCEPT
                              !.queue = Append(@, Packet(counter, current_time)),
                              !.total_packets_created = @ + 1],
               counter |-> counter + 1]
         ELSE [station |-> [st EXCEPT !.total_packets_lost = @ + 1],
               counter |-> counter]
    ELSE [station |-> st, counter |-> counter]

\* generate_packet that consumes an id for a dropped packet too
generate_packet_drop_takes_id(st, current_time, p, counter, r) ==
    IF r < p
    THEN IF Len(st.queue) < buffer_size
         THEN [station |-> [st EXCEPT
                              !.queue = Append(@, Packet(counter, current_time)),
                              !.total_packets_created = @ + 1],
               counter |-> counter + 1]
         ELSE [station |-> [st EXCEPT
                              !.total_packets_lost = @ + 1,
                              !.total_packets_created = @ + 1],
               counter |-> counter + 1]
    ELSE [station |-> st, counter |-> counter]

\* Station.generate_packet; r is the value random.random() returned.
\* Yields the station afterwards and the returned packet counter.
generate_packet(st, current_time, p, counter, r) ==
    IF r < p
    THEN IF Len(st.queue) < buffer_size
         THEN [station |-> [st EXCEPT
                              !.queue = Append(@, Packet(counter, current_time)),
                              !.total_packets_created = @ + 1],
               counter |-> counter + 1]
         ELSE [station |-> [st EXCEPT
                              !.total_packets_lost = @ + 1,
                              !.total_packets_created = @ + 1],
               counter |-> counter]
    ELSE [station |-> st, counter |-> counter]

\* wants_to_transmit without the test of the queue
wants_to_transmit_ignores_queue(st, r) ==
    2 * r < RandDen

\* Station.wants_to_transmit; r is the value random.random() returned
wants_to_transmit(st, r) ==
    Len(st.queue) > 0 /\ 2 * r < RandDen

RECURSIVE successful_transmission_drains(_, _)
\* successful_transmission that sends the whole queue (while for if)
successful_transmission_drains(st, current_time) ==
    IF st.queue # <<>>
    THEN successful_transmission_drains(
             [st EXCEPT
                !.queue = Tail(@),
                !.total_packets_sent = @ + 1,
                !.total_delay =
                    @ + (current_time - Head(st.queue).arrival_time)],
             current_time)
    ELSE st

\* successful_transmission with the delay subtracted the wrong way round
successful_transmission_delay_reversed(st, current_time) ==
    IF st.queue # <<>>
    THEN [st EXCEPT
            !.queue = Tail(@),
            !.total_packets_sent = @ + 1,
            !.total_delay = @ + (Head(st.queue).arrival_time - current_time)]
    ELSE st

\* successful_transmission that forgets to count the packet as sent
successful_transmission_not_counted(st, current_time) ==
    IF st.queue # <<>>
    THEN [st EXCEPT
            !.queue = Tail(@),
            !.total_delay = @ + (current_time - Head(st.queue).arrival_time)]
    ELSE st

\* successful_transmission that pops the newest packet (pop() for pop(0))
successful_transmission_pops_last(st, current_time) ==
    IF st.queue # <<>>
    THEN [st EXCEPT
            !.queue = SubSeq(@, 1, Len(@) - 1),
            !.total_packets_sent = @ + 1,
            !.total_delay =
                @ + (current_time - st.queue[Len(st.queue)].arrival_time)]
    ELSE st

\* Station.successful_transmission
successful_transmission(st, current_time) ==
    IF st.queue # <<>>
    THEN [st EXCEPT
            !.queue = Tail(@),
            !.total_packets_sent = @ + 1,
            !.total_delay = @ + (current_time - Head(st.queue).arrival_time)]
    ELSE st

\* reset_stations that leaves the queue as it is
reset_station_keeps_queue(st) ==
    [st EXCEPT
       !.total_packets_created = 0,
       !.total_packets_lost = 0,
       !.total_packets_sent = 0,
       !.total_delay = 0]

\* reset_stations, for one station
reset_station(st) ==
    [st EXCEPT
       !.queue = <<>>,
       !.total_packets_created = 0,
       !.total_packets_lost = 0,
       !.total_packets_sent = 0,
       !.total_delay = 0]

----------------------------------------------------------------------------
(* The transmitting_stations dict of one slot: a sequence of entries       *)
(* [wl, station_list] in insertion order, at most one entry per key.       *)

HasKey(d, wl) == \E i \in 1..Len(d) : d[i].wl = wl

\* if wl not in d: d[wl] = [];  d[wl].append(s)
DictAppend(d, wl, s) ==
    IF HasKey(d, wl)
    THEN [i \in 1..Len(d) |->
            IF d[i].wl = wl
            THEN [d[i] EXCEPT !.station_list = Append(@, s)]
            ELSE d[i]]
    ELSE Append(d, [wl |-> wl, station_list |-> <<s>>])

\* step 3 that lets the first station of a colliding group transmit
resolve_entry_first_wins(sts, station_list, current_time) ==
    IF Len(station_list) >= 1
    THEN [sts EXCEPT ![station_list[1]] =
                       successful_transmission(@, current_time)]
    ELSE sts

\* step 3 that lets every station of a colliding group transmit
resolve_entry_all_win(sts, station_list, current_time) ==
    [s \in DOMAIN sts |->
        IF \E i \in 1..Len(station_list) : station_list[i] = s
        THEN successful_transmission(sts[s], current_time)
        ELSE sts[s]]

\* step 3 for one entry of the dict: a sole transmitter succeeds, a
\* collision changes nothing
resolve_entry(sts, station_list, current_time) ==
    IF Len(station_list) = 1
    THEN [sts EXCEPT ![station_list[1]] =
                       successful_transmission(@, current_time)]
    ELSE sts

\* step 3 that leaves the loop at a collision (break for pass)
next_entry_break_on_collision(d, i) ==
    IF Len(d[i].station_list) = 1 THEN i + 1 ELSE Len(d) + 1

\* the entry the loop of step 3 takes after entry i: the next one
next_entry(d, i) == i + 1

RECURSIVE ResolveFrom(_, _, _, _)
\* the loop of step 3 over the entries of d from entry i on
ResolveFrom(sts, d, i, current_time) ==
    IF i > Len(d)
    THEN sts
    ELSE ResolveFrom(resolve_entry(sts, d[i].station_list, current_time),
                     d, next_entry(d, i), current_time)

----------------------------------------------------------------------------
(* Metrics *)

RECURSIVE SumOver(_, _)
\* sum(f(s) for s in self.stations), over the stations 1..n
SumOver(f, n) == IF n = 0 THEN 0 ELSE SumOver(f, n - 1) + f[n]

\* a quotient num / den of two integers, kept exact
Ratio(num, den) == [num |-> num, den |-> den]

\* the literal 0 the conditional expressions fall back to
Zero == Ratio(0, 1)

\* loss_rate without the guard on total_created
loss_rate_unguarded(total_lost, total_created) ==
    Ratio(total_lost, total_created)

\* avg_delay = total_delay / total_sent if total_sent > 0 else 0
avg_delay(total_delay, total_sent) ==
    IF total_sent > 0 THEN Ratio(total_delay, total_sent) ELSE Zero

\* throughput = total_sent / self.total_slots, for total_slots # 0
throughput(total_sent, slots) == Ratio(total_sent, slots)

\* loss_rate = total_lost / total_created if total_created > 0 else 0
loss_rate(total_lost, total_created) ==
    IF total_created > 0 THEN Ratio(total_lost, total_created) ELSE Zero

\* the four sums of step 4
total_created(sts) ==
    SumOver([s \in Stations |-> sts[s].total_packets_created], NumStations)
total_lost(sts) ==
    SumOver([s \in Stations |-> sts[s].total_packets_lost], NumStations)
total_sent(sts) ==
    SumOver([s \in Stations |-> sts[s].total_packets_sent], NumStations)
total_delay(sts) ==
    SumOver([s \in Stations |-> sts[s].total_delay], NumStations)

----------------------------------------------------------------------------
(* State *)

VARIABLES
    total_slots,            \* OpticalSimulation.total_slots
    stations,               \* OpticalSimulation.stations, by station id
    packet_counter,         \* OpticalSimulation.packet_counter
    arrival_prob,           \* argument of the current run_simulation call
    t,                      \* loop variable of the slot loop
    pc,                     \* position in run_simulation
    idx,                    \* position of the inner for loop of the phase
    transmitting_stations,  \* the dict built in step 2 of the slot
    result,                 \* what the last run_simulation call returned
    slot_start,             \* history: stations when the slot began
    resolve_start,          \* history: stations when step 3 of the slot began
    left_queued             \* history: the current call found packets queued

vars == <<total_slots, stations, packet_counter, arrival_prob, t, pc, idx,
          transmitting_stations, result, slot_start, resolve_start,
          left_queued>>

NoResult == [kind |-> "none"]

\* OpticalSimulation.__init__ followed by setup_stations
Init ==
    /\ total_slots \in SlotCounts
    /\ stations = [s \in Stations |-> NewStation]
    /\ packet_counter = 0
    /\ arrival_prob = 0
    /\ t = 0
    /\ pc = "idle"
    /\ idx = 1
    /\ transmitting_stations = <<>>
    /\ result = NoResult
    /\ slot_start = [s \in Stations |-> NewStation]
    /\ resolve_start = [s \in Stations |-> NewStation]
    /\ left_queued = FALSE

----------------------------------------------------------------------------
(* run_simulation, step by step *)

\* entry of run_simulation(p): reset the counter and the stations, then
\* enter the slot loop, or skip it when range(total_slots) is empty
RunSimulation(p) ==
    /\ pc \in {"idle", "returned"}
    /\ Explored(total_slots, p)
    /\ arrival_prob' = p
    /\ packet_counter' = 0
    /\ left_queued' = \E s \in Stations : stations[s].queue # <<>>
    /\ stations' = [s \in Stations |-> reset_station(stations[s])]
    /\ slot_start' = stations'
    /\ resolve_start' = stations'
    /\ transmitting_stations' = <<>>
    /\ result' = NoResult
    /\ t' = 0
    /\ idx' = 1
    /\ pc' = IF total_slots > 0 THEN "arrival" ELSE "metrics"
    /\ UNCHANGED total_slots

\* step 1, one iteration: station idx generates a packet, or not
GeneratePacket(r) ==
    /\ pc = "arrival"
    /\ LET g == generate_packet(stations[idx], t, arrival_prob,
                                packet_counter, r)
       IN  /\ stations' = [stations EXCEPT ![idx] = g.station]
           /\ packet_counter' = g.counter
    /\ IF idx < NumStations
       THEN idx' = idx + 1 /\ pc' = "arrival"
       ELSE idx' = 1 /\ pc' = "intent"
    /\ UNCHANGED <<total_slots, arrival_prob, t, transmitting_stations,
                   result, slot_start, resolve_start, left_queued>>

\* step 2, one iteration: station idx declares its intent, or not
WantsToTransmit(r) ==
    /\ pc = "intent"
    /\ transmitting_stations' =
          IF wants_to_transmit(stations[idx], r)
          THEN DictAppend(transmitting_stations, wavelength(idx), idx)
          ELSE transmitting_stations
    /\ IF idx < NumStations
       THEN idx' = idx + 1 /\ pc' = "intent" /\ UNCHANGED resolve_start
       ELSE idx' = 1 /\ pc' = "resolve" /\ resolve_start' = stations
    /\ UNCHANGED <<total_slots, stations, packet_counter, arrival_prob, t,
                   result, slot_start, left_queued>>

\* step 3, one iteration: entry idx of the dict is a success or a collision
Resolve ==
    /\ pc = "resolve"
    /\ idx <= Len(transmitting_stations)
    /\ stations' = resolve_entry(stations,
                                 transmitting_stations[idx].station_list, t)
    /\ idx' = next_entry(transmitting_stations, idx)
    /\ UNCHANGED <<total_slots, packet_counter, arrival_prob, t, pc,
                   transmitting_stations, result, slot_start, resolve_start,
                   left_queued>>

\* EndSlot of a loop over range(total_slots + 1)
EndSlot_one_slot_more ==
    /\ pc = "resolve"
    /\ idx > Len(transmitting_stations)
    /\ IF t + 1 < total_slots + 1
       THEN /\ t' = t + 1
            /\ pc' = "arrival"
            /\ slot_start' = stations
            /\ resolve_start' = stations
            /\ transmitting_stations' = <<>>
       ELSE /\ pc' = "metrics"
            /\ UNCHANGED <<t, slot_start, resolve_start,
                           transmitting_stations>>
    /\ idx' = 1
    /\ UNCHANGED <<total_slots, stations, packet_counter, arrival_prob,
                   result, left_queued>>

\* end of the loop body: the next slot, or the end of the slot loop
EndSlot ==
    /\ pc = "resolve"
    /\ idx > Len(transmitting_stations)
    /\ IF t + 1 < total_slots
       THEN /\ t' = t + 1
            /\ pc' = "arrival"
            /\ slot_start' = stations
            /\ resolve_start' = stations
            /\ transmitting_stations' = <<>>
       ELSE /\ pc' = "metrics"
            /\ UNCHANGED <<t, slot_start, resolve_start,
                           transmitting_stations>>
    /\ idx' = 1
    /\ UNCHANGED <<total_slots, stations, packet_counter, arrival_prob,
                   result, left_queued>>

\* step 4: the sums and the three metrics; total_sent / 0 raises
CollectMetrics ==
    /\ pc = "metrics"
    /\ IF total_slots = 0
       THEN /\ pc' = "raised"
            /\ result' = [kind |-> "ZeroDivisionError"]
       ELSE /\ pc' = "returned"
            /\ result' =
                 [kind       |-> "metrics",
                  avg_delay  |-> avg_delay(total_delay(stations),
                                           total_sent(stations)),
                  throughput |-> throughput(total_sent(stations), total_slots),
                  loss_rate  |-> loss_rate(total_lost(stations),
                                           total_created(stations))]
    /\ UNCHANGED <<total_slots, stations, packet_counter, arrival_prob, t,
                   idx, transmitting_stations, slot_start, resolve_start,
                   left_queued>>

Next ==
    \/ \E p \in ArrivalProbs : RunSimulation(p)
    \/ \E r \in RandomDraws : GeneratePacket(r)
    \/ \E r \in RandomDraws : WantsToTransmit(r)
    \/ Resolve
    \/ EndSlot
    \/ CollectMetrics

Spec == Init /\ [][Next]_vars

----------------------------------------------------------------------------
(* Properties *)

\* the slot loop of a run is executing
Running == pc \in {"arrival", "intent", "resolve"}

\* step 3 of the current slot has processed every entry of the dict
Resolved == pc = "resolve" /\ idx > Len(transmitting_stations)

\* C1: for every station, in every state of a run and at its end,
\* total_packets_created = total_packets_sent + total_packets_lost +
\* len(queue)
C1_Conservation ==
    \A s \in Stations :
        stations[s].total_packets_created =
            stations[s].total_packets_sent + stations[s].total_packets_lost
            + Len(stations[s].queue)

\* a run has ended with a station that has sent, lost and still queues packets
C1_Witness ==
    /\ pc = "returned"
    /\ \E s \in Stations :
          /\ stations[s].total_packets_sent > 0
          /\ stations[s].total_packets_lost > 0
          /\ Len(stations[s].queue) > 0

\* C2: for every station, len(queue) <= buffer_size in every reachable
\* state, in the first run on the engine and in every later one
C2_QueueBounded ==
    \A s \in Stations : Len(stations[s].queue) <= buffer_size

\* a station whose queue is full has had an arrival refused
C2_Witness ==
    \E s \in Stations :
        /\ Len(stations[s].queue) = buffer_size
        /\ stations[s].total_packets_lost > 0

\* C3: in a slot, for each wavelength, at most one station assigned to the
\* wavelength has its total_packets_sent changed since the slot began
C3_OneSuccessPerWavelength ==
    \A wl \in Wavelengths :
        Cardinality({s \in wavelength_groups(wl) :
                       stations[s].total_packets_sent
                           # slot_start[s].total_packets_sent}) <= 1

\* a slot is resolved in which one wavelength had a success and another a
\* collision
C3_Witness ==
    /\ Resolved
    /\ \E s \in Stations :
          stations[s].total_packets_sent > slot_start[s].total_packets_sent
    /\ \E i \in 1..Len(transmitting_stations) :
          Len(transmitting_stations[i].station_list) > 1

C5_LossRateInUnitInterval ==
    /\ \A s \in Stations :
          /\ 0 <= stations[s].total_packets_lost
          /\ stations[s].total_packets_lost
                 <= stations[s].total_packets_created
    /\ pc = "returned" =>
          /\ result.loss_rate.den > 0
          /\ 0 <= result.loss_rate.num
          /\ result.loss_rate.num <= result.loss_rate.den
          /\ total_created(stations) = 0 => result.loss_rate.num = 0

\* a run has returned a loss rate strictly between 0 and 1
C5_Witness ==
    /\ pc = "returned"
    /\ 0 < result.loss_rate.num
    /\ result.loss_rate.num < result.loss_rate.den

\* the configuration of the current call is invalid
InvalidConfiguration ==
    arrival_prob < 0 \/ arrival_prob > RandDen \/ total_slots <= 0

\* C6: a run_simulation call with an arrival probability outside [0, 1] or
\* a total_slots <= 0 ends in an invalid-configuration error, with no slot
\* executed and no metrics returned
C6_InvalidConfigurationFailsFast ==
    (pc # "idle" /\ InvalidConfiguration) =>
        /\ pc = "raised"
        /\ result.kind = "InvalidConfigurationError"

\* C7 as claimed: after the arrival phase of a slot, packet_counter is the
\* sum over the stations of total_packets_created
C7_CounterCountsCreated ==
    (pc \in {"intent", "resolve"}) =>
        packet_counter = total_created(stations)

\* C7 as amended: generate_packet consumes an id for an admitted arrival
\* only: after the arrival phase of a slot, packet_counter is the sum over
\* the stations of total_packets_created - total_packets_lost
C7_CounterCountsAdmitted ==
    (pc \in {"intent", "resolve"}) =>
        packet_counter = total_created(stations) - total_lost(stations)

\* an arrival phase has ended in which a packet was dropped
C7_Witness ==
    /\ pc = "intent"
    /\ idx = 1
    /\ total_lost(stations) > total_lost(slot_start)

\* the stations of the entry of wavelength wl in the dict, <<>> without one
Intending(wl) ==
    IF HasKey(transmitting_stations, wl)
    THEN (CHOOSE e \in {transmitting_stations[i] :
                          i \in 1..Len(transmitting_stations)} :
              e.wl = wl).station_list
    ELSE <<>>

\* C8: in a slot where two or more stations of a wavelength declare intent,
\* no station of that wavelength has total_packets_sent, total_delay or its
\* queue changed by the resolution phase
C8_CollisionChangesNothing ==
    pc = "resolve" =>
        \A wl \in Wavelengths :
            Len(Intending(wl)) >= 2 =>
                \A s \in wavelength_groups(wl) :
                    /\ stations[s].total_packets_sent
                           = resolve_start[s].total_packets_sent
                    /\ stations[s].total_delay
                           = resolve_start[s].total_delay
                    /\ stations[s].queue = resolve_start[s].queue

\* a slot is resolved in which two stations with two queued packets each
\* collided
C8_Witness ==
    /\ Resolved
    /\ \E wl \in Wavelengths :
          /\ Len(Intending(wl)) >= 2
          /\ \A s \in wavelength_groups(wl) : Len(stations[s].queue) = 2

\* C9: in a slot t where exactly one station of a wavelength declares
\* intent, the resolution phase removes the head packet of its queue,
\* adds 1 to its total_packets_sent and adds t - arrival_time of that
\* packet, which is >= 0, to its total_delay
C9_SingleIntentSucceeds ==
    Resolved =>
        \A wl \in Wavelengths :
            Len(Intending(wl)) = 1 =>
                LET s      == Intending(wl)[1]
                    before == resolve_start[s]
                IN  /\ wavelength(s) = wl
                    /\ before.queue # <<>>
                    /\ stations[s].total_packets_sent
                           = before.total_packets_sent + 1
                    /\ stations[s].queue = Tail(before.queue)
                    /\ t - Head(before.queue).arrival_time >= 0
                    /\ stations[s].total_delay
                           = before.total_delay
                             + (t - Head(before.queue).arrival_time)

\* a sole transmitter has sent the older of its two packets, which waited
C9_Witness ==
    /\ Resolved
    /\ \E wl \in Wavelengths :
          /\ Len(Intending(wl)) = 1
          /\ Len(resolve_start[Intending(wl)[1]].queue) = 2
          /\ stations[Intending(wl)[1]].total_delay
                 > resolve_start[Intending(wl)[1]].total_delay

\* the step is generate_packet on station s, whose queue is full
ArrivalAtFull(s) ==
    pc = "arrival" /\ idx = s /\ Len(stations[s].queue) = buffer_size

\* C10: generate_packet on a station whose queue is full either has no
\* arrival and changes nothing, or adds 1 to total_packets_created and to
\* total_packets_lost and leaves the queue, total_packets_sent and
\* total_delay as they are, and does so whenever the arrival is certain;
\* total_packets_lost grows in no other step
C10_Overflow ==
    [][\A s \in Stations :
          /\ ArrivalAtFull(s) =>
                /\ \/ stations'[s] = stations[s]
                   \/ stations'[s] =
                         [stations[s] EXCEPT
                            !.total_packets_created = @ + 1,
                            !.total_packets_lost = @ + 1]
                /\ arrival_prob >= RandDen => stations'[s] # stations[s]
                /\ arrival_prob <= 0 => stations'[s] = stations[s]
          /\ stations'[s].total_packets_lost > stations[s].total_packets_lost
                => ArrivalAtFull(s)
      ]_vars

\* the arrival phase has just dropped a packet at the full first station
C10_Witness ==
    /\ pc = "arrival"
    /\ idx = 2
    /\ Len(stations[1].queue) = buffer_size
    /\ stations[1].total_packets_lost = slot_start[1].total_packets_lost + 1
    /\ stations[1].queue = slot_start[1].queue


\* the first slot of a run_simulation call is about to be executed
FirstSlot == pc = "arrival" /\ t = 0 /\ idx = 1

\* C11: at the first slot of every run_simulation call, the second and
\* later calls on an engine whose run before left packets queued included,
\* every station has an empty queue and its four counters at 0, and the
\* packet counter is 0
C11_RunIsolation ==
    FirstSlot =>
        /\ \A s \in Stations :
              /\ stations[s].queue = <<>>
              /\ stations[s].total_packets_created = 0
              /\ stations[s].total_packets_lost = 0
              /\ stations[s].total_packets_sent = 0
              /\ stations[s].total_delay = 0
        /\ packet_counter = 0

\* a call is at its first slot on an engine whose run before left packets
\* queued
C11_Witness == FirstSlot /\ left_queued


\* C12: in a run with arrival_probability = 0 no packet is ever created:
\* every station keeps an empty queue and its four counters at 0 in every
\* state, and a run of a positive number of slots raises nothing and
\* returns mean_delay = 0, throughput = 0 and loss_rate = 0
C12_NoArrivalsAtZero ==
    arrival_prob = 0 =>
        /\ \A s \in Stations : stations[s] = NewStation
        /\ packet_counter = 0
        /\ total_slots > 0 => pc # "raised"
        /\ pc = "returned" =>
              /\ result.avg_delay = Zero
              /\ result.throughput.num = 0
              /\ result.loss_rate = Zero

\* a run of the largest number of slots with arrival_probability = 0 has
\* returned, on an engine whose run before left packets queued
C12_Witness ==
    /\ arrival_prob = 0
    /\ pc = "returned"
    /\ total_slots = MaxSlots
    /\ left_queued


\* a step of the body of run_simulation, after its entry
RunStep ==
    \/ \E r \in RandomDraws : GeneratePacket(r)
    \/ \E r \in RandomDraws : WantsToTransmit(r)
    \/ Resolve
    \/ EndSlot
    \/ CollectMetrics

\* the call has been entered and has not yet returned or raised
InCall == pc \in {"arrival", "intent", "resolve", "metrics"}

\* the most steps one slot takes: an arrival and an intent step for every
\* station, a resolution step for every wavelength, and the end of the body
StepsPerSlot == 2 * NumStations + NumWavelengths + 1

\* an upper bound on the steps the call still takes
StepsLeft ==
    CASE pc = "arrival" ->
           (total_slots - 1 - t) * StepsPerSlot
           + (NumStations - idx + 1) + NumStations + NumWavelengths + 2
      [] pc = "intent" ->
           (total_slots - 1 - t) * StepsPerSlot
           + (NumStations - idx + 1) + NumWavelengths + 2
      [] pc = "resolve" ->
           (total_slots - 1 - t) * StepsPerSlot
           + (Len(transmitting_stations) - idx + 1) + 2
      [] pc = "metrics" -> 1
      [] OTHER -> 0

\* C14: a run_simulation call with a positive total_slots terminates: the
\* slot index starts at 0, stays below total_slots and only ever grows by
\* 1, at the end of a loop body; the call can always take a step and every
\* step lowers a bound on the steps left; the metrics are computed after
\* slot total_slots - 1 and nowhere else, once, and the call then returns
\* without processing another slot
C14_RunTerminates ==
    /\ [](Running => (0 <= t /\ t < total_slots))
    /\ [](InCall => (ENABLED RunStep /\ StepsLeft > 0))
    /\ []((total_slots > 0 /\ pc \in {"metrics", "returned"})
             => t = total_slots - 1)
    /\ [](total_slots > 0 => pc # "raised")
    /\ [][/\ InCall => StepsLeft' < StepsLeft
          /\ (Running /\ t' # t) => (t' = t + 1 /\ Resolved
                                     /\ pc' = "arrival" /\ idx' = 1)
          /\ (~Running /\ Running') => (t' = 0 /\ pc' = "arrival" /\ idx' = 1)
          /\ pc = "metrics" => pc' \in {"returned", "raised"}
          /\ (pc # "metrics" /\ pc' = "metrics" /\ total_slots > 0)
                => (Resolved /\ t = total_slots - 1)
          /\ (pc = "returned" /\ pc' # "returned") => result' = NoResult
      ]_vars

\* a call on an engine of the largest number of slots has returned its
\* metrics after the last slot
C14_Witness ==
    /\ pc = "returned"
    /\ total_slots = MaxSlots
    /\ t = MaxSlots - 1
    /\ result.kind = "metrics"
    /\ arrival_prob = RandDen


\* the step is the entry of a run_simulation call
CallEntry == pc \in {"idle", "returned"} /\ pc' \in {"arrival", "metrics"}

\* C15: within a run no step lowers a station's total_packets_created,
\* total_packets_lost, total_packets_sent or total_delay; a counter drops
\* only at the entry of the next run, where all four become 0
C15_CountersMonotone ==
    [][\A s \in Stations :
          \/ /\ stations'[s].total_packets_created
                   >= stations[s].total_packets_created
             /\ stations'[s].total_packets_lost
                   >= stations[s].total_packets_lost
             /\ stations'[s].total_packets_sent
                   >= stations[s].total_packets_sent
             /\ stations'[s].total_delay >= stations[s].total_delay
          \/ /\ CallEntry
             /\ stations'[s].total_packets_created = 0
             /\ stations'[s].total_packets_lost = 0
             /\ stations'[s].total_packets_sent = 0
             /\ stations'[s].total_delay = 0
      ]_vars

\* in a run that followed another, a station has all four counters above 0
C15_Witness ==
    /\ left_queued
    /\ Running
    /\ \E s \in Stations :
          /\ stations[s].total_packets_created > 0
          /\ stations[s].total_packets_lost > 0
          /\ stations[s].total_packets_sent > 0
          /\ stations[s].total_delay > 0


\* station s is in a list of the transmitting_stations dict
Transmitting(s) ==
    \E i \in 1..Len(transmitting_stations) :
        \E j \in 1..Len(transmitting_stations[i].station_list) :
            transmitting_stations[i].station_list[j] = s

\* C16: a station whose queue is empty when the intent phase asks it is
\* never put into the slot's transmitting group, and
\* successful_transmission on a station with an empty queue returns the
\* station as it was
C16_EmptyQueueNeverTransmits ==
    /\ pc = "intent" =>
          \A s \in Stations : Transmitting(s) => stations[s].queue # <<>>
    /\ pc = "resolve" =>
          \A s \in Stations : Transmitting(s) => resolve_start[s].queue # <<>>
    /\ \A s \in Stations :
          stations[s].queue = <<>> =>
              successful_transmission(stations[s], t) = stations[s]

\* the intent phase has ended with one station in the group and another,
\* whose queue is empty, left out
C16_Witness ==
    /\ pc = "resolve"
    /\ idx = 1
    /\ \E s \in Stations : Transmitting(s)
    /\ \E s \in Stations : ~Transmitting(s) /\ stations[s].queue = <<>>


\* the positions of the queues: a station and an index into its queue
QueuePositions ==
    {<<s, i>> \in Stations \X (1..buffer_size) : i <= Len(stations[s].queue)}

\* packet a of station sa was created before packet b of station sb: in an
\* earlier slot, or in the same slot at a station iterated earlier
CreatedBefore(a, sa, b, sb) ==
    \/ a.arrival_time < b.arrival_time
    \/ a.arrival_time = b.arrival_time /\ sa < sb

\* C17: within a run packet ids are unique and increase in creation order:
\* an admitted packet gets the current packet_counter as its id and the
\* slot index as its arrival_time, and the counter then grows by 1 and
\* never drops within the run; of two queued packets the one created
\* earlier, by (slot, station-iteration) order, has the smaller id; in
\* every queue ids increase strictly and arrival_time does not decrease
\* from head to tail
C17_IdsIncreaseInCreationOrder ==
    /\ [](\A x \in QueuePositions : \A y \in QueuePositions :
             LET a == stations[x[1]].queue[x[2]]
                 b == stations[y[1]].queue[y[2]]
             IN  /\ 0 <= a.id /\ a.id < packet_counter
                 /\ x # y => a.id # b.id
                 /\ x # y => (a.id < b.id <=> CreatedBefore(a, x[1], b, y[1]))
                 /\ (x[1] = y[1] /\ x[2] < y[2]) =>
                       (a.id < b.id /\ a.arrival_time <= b.arrival_time))
    /\ [][/\ \A s \in Stations :
                Len(stations'[s].queue) > Len(stations[s].queue) =>
                    /\ stations'[s].queue =
                          Append(stations[s].queue, Packet(packet_counter, t))
                    /\ packet_counter' = packet_counter + 1
          /\ packet_counter' # packet_counter =>
                \/ /\ packet_counter' = packet_counter + 1
                   /\ pc = "arrival"
                   /\ Len(stations'[idx].queue) = Len(stations[idx].queue) + 1
                \/ CallEntry /\ packet_counter' = 0
      ]_vars

\* a queue holds two packets whose ids are not consecutive, the ids between
\* them having gone to other stations, after an earlier packet was sent
C17_Witness ==
    \E s \in Stations :
        /\ Len(stations[s].queue) = 2
        /\ stations[s].queue[2].id > stations[s].queue[1].id + 1
        /\ stations[s].total_packets_sent > 0


\* the orders in which the n entries of a dict can be processed
Orders(n) ==
    {f \in [1..n -> 1..n] : \A i \in 1..n : \A j \in 1..n :
                                f[i] = f[j] => i = j}

\* the dict d with its entries in the order f
Reordered(d, f) == [i \in 1..Len(d) |-> d[f[i]]]

\* C18: for the intent decisions of a slot, the resolution phase run over
\* the wavelength groups in any order ends with the same queue and
\* counters for every station, which are those the slot ends with
C18_ResolutionOrderIndependent ==
    pc = "resolve" =>
        /\ \A f \in Orders(Len(transmitting_stations)) :
              ResolveFrom(resolve_start,
                          Reordered(transmitting_stations, f), 1, t)
                  = ResolveFrom(resolve_start, transmitting_stations, 1, t)
        /\ ResolveFrom(stations, transmitting_stations, idx, t)
              = ResolveFrom(resolve_start, transmitting_stations, 1, t)
        /\ Resolved =>
              stations = ResolveFrom(resolve_start, transmitting_stations, 1, t)

\* the resolution phase begins with a colliding group first in the dict
\* and a sole transmitter after it
C18_Witness ==
    /\ pc = "resolve"
    /\ idx = 1
    /\ Len(transmitting_stations) = NumWavelengths
    /\ Len(transmitting_stations[1].station_list) > 1
    /\ Len(transmitting_stations[NumWavelengths].station_list) = 1


\* C19: a generate_packet step changes no station but the one it is called
\* on, and without an arrival changes neither that station nor the packet
\* counter; a step of the resolution phase changes no station but the sole
\* transmitter of its entry; the intent phase changes no station; and a
\* queue only ever loses its head or gains, in its own generate_packet
\* step, a packet with the fresh id, so that no packet enters the queue of
\* a station that did not admit it
C19_StationIsolation ==
    [][/\ pc = "arrival" =>
             /\ \A s \in Stations \ {idx} : stations'[s] = stations[s]
             /\ \/ stations' = stations /\ packet_counter' = packet_counter
                \/ stations'[idx].total_packets_created
                      = stations[idx].total_packets_created + 1
             /\ arrival_prob <= 0 =>
                   (stations' = stations /\ packet_counter' = packet_counter)
       /\ pc = "intent" => stations' = stations
       /\ (pc = "resolve" /\ idx <= Len(transmitting_stations)) =>
             \A s \in Stations :
                 stations'[s] # stations[s] =>
                     transmitting_stations[idx].station_list = <<s>>
       /\ \A s \in Stations :
             \/ stations'[s].queue = stations[s].queue
             \/ /\ pc = "resolve"
                /\ stations[s].queue # <<>>
                /\ stations'[s].queue = Tail(stations[s].queue)
             \/ /\ pc = "arrival"
                /\ idx = s
                /\ stations'[s].queue =
                      Append(stations[s].queue, Packet(packet_counter, t))
             \/ CallEntry /\ stations'[s].queue = <<>>
      ]_vars

\* in a run with an arrival probability strictly between 0 and 1, the
\* resolution phase has changed one station and no other, while a second
\* station holds a packet and a third has had no arrival
C19_Witness ==
    /\ 0 < arrival_prob
    /\ arrival_prob < RandDen
    /\ pc = "resolve"
    /\ \E s \in Stations :
          /\ stations[s] # resolve_start[s]
          /\ \A o \in Stations \ {s} : stations[o] = resolve_start[o]
          /\ \E o \in Stations \ {s} : stations[o].queue # <<>>
          /\ \E o \in Stations \ {s} : stations[o].total_packets_created = 0


\* C20: in a slot every station's total_packets_sent grows by at most 1
\* and the stations together send at most one packet per wavelength, so
\* that the t slots before the current one have sent at most
\* (number of wavelengths) * t packets and a run of total_slots slots at
\* most (number of wavelengths) * total_slots
C20_SuccessesPerSlot ==
    /\ \A s \in Stations :
          /\ stations[s].total_packets_sent
                >= slot_start[s].total_packets_sent
          /\ stations[s].total_packets_sent
                <= slot_start[s].total_packets_sent + 1
    /\ total_sent(stations) - total_sent(slot_start) <= NumWavelengths
    /\ Running => total_sent(slot_start) <= NumWavelengths * t
    /\ (pc \in {"metrics", "returned"} /\ total_slots > 0) =>
          total_sent(stations) <= NumWavelengths * total_slots

\* the bound is reached: in the second slot of a run, as in the first,
\* every wavelength has had a sole transmitter
C20_Witness ==
    /\ Resolved
    /\ t = 1
    /\ total_sent(slot_start) = NumWavelengths
    /\ total_sent(stations) = 2 * NumWavelengths
    /\ \A i \in 1..Len(transmitting_stations) :
          Len(transmitting_stations[i].station_list) = 1

=============================================================================
